---- MODULE Spec2Model ----
(***************************************************************************)
(* Model of the batch-level piece downloader (app/requests.py: _Downloader *)
(* and the worker process _start_conn) and of the peer connection          *)
(* (app/bittorrent_proto.py).                                              *)
(*                                                                         *)
(* The orchestrator is one sequential process whose position is pc; each   *)
(* worker is an OS process whose position is wstate[p].  The two sides     *)
(* talk only through the two directions of the duplex pipe of each Proc.   *)
(***************************************************************************)
EXTENDS Integers, Sequences, FiniteSets, TLC

\* ------------------------------------------------------------ bounds
NumPeers == 2
MaxBlocks == 2
MaxFrames == 4
MaxItems == 2

\* ------------------------------------------------- program constants
BLOCK_SIZE == 16384
BATCH_SIZE == 1
HANDSHAKE_LENGTH == 68
MSG_HEADER_LENGTH == 5

\* ------------------------------------------------------------- state
VARIABLES
    meta,        \* MetaInfo: piece_length, length, npieces = len(pieces)
    index,       \* the piece index given to _Downloader
    status,      \* Proc.status, per worker handle
    batch,       \* Proc.batch, per worker handle; <<>> is None
    batches,     \* _Downloader._batches
    blocks,      \* _Downloader._blocks
    errors,      \* _Downloader._errors
    proc_idx,    \* the round-robin cursor of download()
    pc,          \* position of the orchestrator
    cur,         \* the Proc the orchestrator is handling
    interrupted, \* an exception escaped the scheduler loop
    mainClosed,  \* the orchestrator's pipe_main / pipe_proc are closed
    toWorker,    \* pipe, orchestrator -> worker
    toMain,      \* pipe, worker -> orchestrator
    wstate,      \* position of the worker process
    wreq,        \* the requests the worker is fetching
    werr,        \* the local `error` of _start_conn
    sock,        \* the socket of the worker's PeerConnection
    output,      \* the output file: whether it exists, and the blocks written
    \* one PeerConnection, byte by byte
    script,         \* what the peer sends, frame by frame, before it closes
    only_handshake, \* the only_handshake argument of PeerConnection
    rx,             \* the bytes of the peer not yet read from _io
    tx,             \* the messages written to _io
    cpc,            \* position in PeerConnection.__init__ and after
    c_socket,       \* PeerConnection._socket / _io
    c_ready,        \* PeerConnection._ready
    c_handshake,    \* PeerConnection._handshake
    cerr,           \* the exception raised by the connection
    parts,          \* the result of the last get_blocks
    iolog,          \* what was written to and read from _io, in order
    \* one call of a function of the codec, the tracker client or the CLI
    fn,             \* the function called
    arg,            \* its argument
    fret,           \* what it returned or raised
    fpc             \* position of the call

schedVars == <<meta, index, status, batch, batches, blocks, errors, proc_idx,
               pc, cur, interrupted, mainClosed, toWorker, toMain, wstate, wreq,
               werr, sock, output>>

connVars == <<script, only_handshake, rx, tx, cpc, c_socket, c_ready,
              c_handshake, cerr, parts, iolog>>

callVars == <<fn, arg, fret, fpc>>

vars == <<schedVars, connVars, callVars>>

Procs == 0 .. (NumPeers - 1)

\* ------------------------------------------------------- pure helpers
Min(a, b) == IF a <= b THEN a ELSE b

Ceil(a, b) == (a + b - 1) \div b

RequestMsg(i, begin, length) == [index |-> i, begin |-> begin, length |-> length]

PieceMsg(i, begin, block) == [index |-> i, begin |-> begin, block |-> block]

PieceBegin(m, i) == m.piece_length * i

PieceLength(m, i) ==
    Min(PieceBegin(m, i) + m.piece_length, m.length) - PieceBegin(m, i)

NumBlocks(m, i) == Ceil(PieceLength(m, i), BLOCK_SIZE)

\* A faulty split: every block is asked for at full size, the last one too.
RequestsFullBlocks(m, i) ==
    [k \in 1 .. NumBlocks(m, i) |-> RequestMsg(i, (k - 1) * BLOCK_SIZE, BLOCK_SIZE)]

\* The requests of _Downloader.__init__: one per block of the piece.
Requests(m, i) ==
    [k \in 1 .. NumBlocks(m, i) |->
        RequestMsg(i, (k - 1) * BLOCK_SIZE,
                   Min(BLOCK_SIZE, PieceLength(m, i) - (k - 1) * BLOCK_SIZE))]

RECURSIVE Batched(_, _)
Batched(s, n) ==
    IF Len(s) = 0 THEN <<>>
    ELSE IF Len(s) <= n THEN <<s>>
    ELSE <<SubSeq(s, 1, n)>> \o Batched(SubSeq(s, n + 1, Len(s)), n)

\* The bytes of the torrent's block at `begin`, and bytes that differ from
\* them (what a peer that serves corrupt data sends).
TrueBlock(begin) == <<"data", begin>>
CorruptBlock(begin) == <<"junk", begin>>

\* The torrents and piece indexes a download is started with.
Metas ==
    {[piece_length |-> BLOCK_SIZE * k,
      length |-> BLOCK_SIZE * k + r,
      npieces |-> Ceil(BLOCK_SIZE * k + r, BLOCK_SIZE * k)] :
        k \in 1 .. MaxBlocks, r \in {0, BLOCK_SIZE \div 2}}

num_blocks == NumBlocks(meta, index)

\* ------------------------------------------------------ pipe messages
NoneMsg == [kind |-> "none"]
BatchMsg(b) == [kind |-> "batch", reqs |-> b]
PiecesMsg(ps) == [kind |-> "pieces", pieces |-> ps]
ErrorMsg(e) == [kind |-> "error", err |-> e]

\* Process.is_alive(): started and not yet exited.
IsAlive(p) == wstate[p] \notin {"notstarted", "exited"}

\* ------------------------------------------------------------- Init
\* No connection of the byte-level model exists.
ConnOff ==
    /\ script = <<>>
    /\ only_handshake = FALSE
    /\ rx = <<>>
    /\ tx = <<>>
    /\ cpc = "off"
    /\ c_socket = "none"
    /\ c_ready = FALSE
    /\ c_handshake = <<>>
    /\ cerr = "none"
    /\ parts = <<>>
    /\ iolog = <<>>

\* No function call is being followed.
CallOff ==
    /\ fn = "none"
    /\ arg = <<>>
    /\ fret = <<>>
    /\ fpc = "off"

\* _Downloader.__init__ for the torrent m and the piece index i.
Downloader(m, i) ==
    /\ meta = m
    /\ index = i
    /\ status = [p \in Procs |-> "uninit"]
    /\ batch = [p \in Procs |-> <<>>]
    /\ batches = Batched(Requests(m, i), BATCH_SIZE)
    /\ blocks = <<>>
    /\ errors = <<>>
    /\ proc_idx = 0
    /\ cur = 0
    /\ interrupted = FALSE
    /\ mainClosed = [p \in Procs |-> FALSE]
    /\ toWorker = [p \in Procs |-> <<>>]
    /\ toMain = [p \in Procs |-> <<>>]
    /\ wstate = [p \in Procs |-> "notstarted"]
    /\ wreq = [p \in Procs |-> <<>>]
    /\ werr = [p \in Procs |-> "none"]
    /\ sock = [p \in Procs |-> "none"]
    /\ output = [exists |-> FALSE, data |-> <<>>]

Init ==
    /\ \E m \in Metas : \E i \in 0 .. (m.npieces - 1) : Downloader(m, i)
    /\ pc = "loop"
    /\ ConnOff
    /\ CallOff

\* ------------------------------------------------------ orchestrator
\* A faulty get_batch: the head is returned but stays in the queue.
GetBatchKeep ==
    IF Len(batches) > 0
    THEN [batch |-> Head(batches), rest |-> batches]
    ELSE [batch |-> <<>>, rest |-> batches]

\* A faulty get_batch: the last batch of the queue is taken.
GetBatchLast ==
    IF Len(batches) > 0
    THEN [batch |-> batches[Len(batches)], rest |-> SubSeq(batches, 1, Len(batches) - 1)]
    ELSE [batch |-> <<>>, rest |-> batches]

\* _Downloader.get_batch: the batch taken (<<>> is None) and the queue left.
GetBatch ==
    IF Len(batches) > 0
    THEN [batch |-> Head(batches), rest |-> Tail(batches)]
    ELSE [batch |-> <<>>, rest |-> batches]

\* _Downloader._validate_proc for a Proc that is not dead.
ValidateProc(p) == IsAlive(p) /\ ~mainClosed[p]

\* A faulty _end_proc: the held batch is dropped, not requeued.
EndProcDrop(p, ret) ==
    /\ batches' = batches
    /\ batch' = [batch EXCEPT ![p] = <<>>]
    /\ toWorker' = IF ~mainClosed[p]
                   THEN [toWorker EXCEPT ![p] = Append(@, NoneMsg)]
                   ELSE toWorker
    /\ mainClosed' = [mainClosed EXCEPT ![p] = TRUE]
    /\ cur' = p
    /\ pc' = ret

\* A faulty _end_proc: the pipes are closed without the sentinel being sent.
EndProcNoSentinel(p, ret) ==
    /\ batches' = IF batch[p] /= <<>> THEN Append(batches, batch[p]) ELSE batches
    /\ batch' = [batch EXCEPT ![p] = <<>>]
    /\ toWorker' = toWorker
    /\ mainClosed' = [mainClosed EXCEPT ![p] = TRUE]
    /\ cur' = p
    /\ pc' = ret

\* A faulty _end_proc: the held batch goes back to the head of the queue.
EndProcRequeueHead(p, ret) ==
    /\ batches' = IF batch[p] /= <<>> THEN <<batch[p]>> \o batches ELSE batches
    /\ batch' = [batch EXCEPT ![p] = <<>>]
    /\ toWorker' = IF ~mainClosed[p]
                   THEN [toWorker EXCEPT ![p] = Append(@, NoneMsg)]
                   ELSE toWorker
    /\ mainClosed' = [mainClosed EXCEPT ![p] = TRUE]
    /\ cur' = p
    /\ pc' = ret

\* _Downloader._end_proc up to proc.join(): the batch goes back to the tail of
\* the queue, the sentinel is sent and the orchestrator's pipe ends are closed.
\* The orchestrator then waits in Join (at pc = ret) for the process to exit.
EndProc(p, ret) ==
    /\ batches' = IF batch[p] /= <<>> THEN Append(batches, batch[p]) ELSE batches
    /\ batch' = [batch EXCEPT ![p] = <<>>]
    /\ toWorker' = IF ~mainClosed[p]
                   THEN [toWorker EXCEPT ![p] = Append(@, NoneMsg)]
                   ELSE toWorker
    /\ mainClosed' = [mainClosed EXCEPT ![p] = TRUE]
    /\ cur' = p
    /\ pc' = ret

\* A faulty _can_continue: the loop stops one block early.
CanContinueOffByOne ==
    /\ ~(Len(blocks) + 1 >= num_blocks)
    /\ \E p \in Procs : status[p] /= "dead"

\* _Downloader._can_continue
CanContinue ==
    /\ ~(Len(blocks) >= num_blocks)
    /\ \E p \in Procs : status[p] /= "dead"

\* A faulty _handle_ready: the batch is sent and recorded, but the status is
\* left at ready.
ReadyBodyKeepStatus(p) ==
    IF ~ValidateProc(p)
    THEN /\ EndProc(p, "join")
         /\ UNCHANGED status
    ELSE LET got == GetBatch IN
         /\ cur' = p
         /\ pc' = "loop"
         /\ batches' = got.rest
         /\ UNCHANGED <<mainClosed, status>>
         /\ IF got.batch /= <<>>
            THEN /\ toWorker' = [toWorker EXCEPT ![p] = Append(@, BatchMsg(got.batch))]
                 /\ batch' = [batch EXCEPT ![p] = got.batch]
            ELSE UNCHANGED <<toWorker, batch>>

\* The body of _Downloader._handle_ready for Proc p.
ReadyBody(p) ==
    IF ~ValidateProc(p)
    THEN /\ EndProc(p, "join")
         /\ UNCHANGED status
    ELSE LET got == GetBatch IN
         /\ cur' = p
         /\ pc' = "loop"
         /\ batches' = got.rest
         /\ UNCHANGED mainClosed
         /\ IF got.batch /= <<>>
            THEN /\ toWorker' = [toWorker EXCEPT ![p] = Append(@, BatchMsg(got.batch))]
                 /\ batch' = [batch EXCEPT ![p] = got.batch]
                 /\ status' = [status EXCEPT ![p] = "working"]
            ELSE UNCHANGED <<toWorker, batch, status>>

\* download(): the loop picks procs[proc_idx] and moves the cursor on.
Picked(st) ==
    /\ pc = "loop"
    /\ CanContinue
    /\ status[proc_idx] = st
    /\ proc_idx' = (proc_idx + 1) % NumPeers

\* _handle_uninit: Proc.start() when work is pending, then _handle_ready.
HandleUninit ==
    /\ Picked("uninit")
    /\ cur' = proc_idx
    /\ IF Len(batches) > 0
       THEN /\ status' = [status EXCEPT ![proc_idx] = "ready"]
            /\ wstate' = [wstate EXCEPT ![proc_idx] = "connect"]
            /\ pc' = "h_ready"
       ELSE UNCHANGED <<status, wstate, pc>>
    /\ UNCHANGED <<connVars, callVars, meta, index, batch, batches, blocks, errors, interrupted,
                   mainClosed, toWorker, toMain, wreq, werr, sock, output>>

\* _handle_ready, called from the loop.
HandleReady ==
    /\ Picked("ready")
    /\ ReadyBody(proc_idx)
    /\ UNCHANGED <<connVars, callVars, meta, index, blocks, errors, interrupted, toMain, wstate,
                   wreq, werr, sock, output>>

\* _handle_ready, called by _handle_uninit or _handle_working.
HandleReadyChained ==
    /\ pc = "h_ready"
    /\ ReadyBody(cur)
    /\ UNCHANGED <<connVars, callVars, meta, index, blocks, errors, proc_idx, interrupted, toMain,
                   wstate, wreq, werr, sock, output>>

\* _handle_working up to pipe_main.recv().
HandleWorking ==
    /\ Picked("working")
    /\ IF ~ValidateProc(proc_idx)
       THEN EndProc(proc_idx, "join")
       ELSE /\ cur' = proc_idx
            /\ pc' = "recv"
            /\ UNCHANGED <<batches, batch, toWorker, mainClosed>>
    /\ UNCHANGED <<connVars, callVars, meta, index, status, blocks, errors, interrupted, toMain,
                   wstate, wreq, werr, sock, output>>

\* _handle_working from pipe_main.recv() on.  The orchestrator holds its own
\* copy of the worker's pipe end, so recv() never sees EOF: it waits for a
\* message.
Recv ==
    /\ pc = "recv"
    /\ toMain[cur] /= <<>>
    /\ LET result == Head(toMain[cur]) IN
       /\ toMain' = [toMain EXCEPT ![cur] = Tail(@)]
       /\ IF result.kind = "error"
          THEN /\ errors' = Append(errors, result.err)
               /\ EndProc(cur, "join")
               /\ UNCHANGED <<blocks, status>>
          ELSE IF result.kind = "none"
          THEN /\ EndProc(cur, "join")
               /\ UNCHANGED <<blocks, status, errors>>
          ELSE /\ blocks' = blocks \o result.pieces
               /\ batch' = [batch EXCEPT ![cur] = <<>>]
               /\ status' = [status EXCEPT ![cur] = "ready"]
               /\ pc' = "h_ready"
               /\ UNCHANGED <<errors, batches, toWorker, mainClosed, cur>>
    /\ UNCHANGED <<connVars, callVars, meta, index, proc_idx, interrupted, wstate, wreq, werr,
                   sock, output>>

\* The loop passes over a dead Proc.
SkipDead ==
    /\ Picked("dead")
    /\ UNCHANGED <<connVars, callVars, meta, index, status, batch, batches, blocks, errors, pc, cur,
                   interrupted, mainClosed, toWorker, toMain, wstate, wreq,
                   werr, sock, output>>

\* The loop condition fails: on to the finally block.
ExitLoop ==
    /\ pc = "loop"
    /\ ~CanContinue
    /\ pc' = "finally"
    /\ UNCHANGED <<connVars, callVars, meta, index, status, batch, batches, blocks, errors,
                   proc_idx, cur, interrupted, mainClosed, toWorker, toMain,
                   wstate, wreq, werr, sock, output>>

\* The finally block: _end_proc for the next Proc that is not dead.
FirstLive == CHOOSE p \in Procs :
    /\ status[p] /= "dead"
    /\ \A q \in Procs : status[q] /= "dead" => p <= q

Finally ==
    /\ pc = "finally"
    /\ IF \E p \in Procs : status[p] /= "dead"
       THEN EndProc(FirstLive, "fjoin")
       ELSE /\ pc' = "after"
            /\ UNCHANGED <<batches, batch, toWorker, mainClosed, cur>>
    /\ UNCHANGED <<connVars, callVars, meta, index, status, blocks, errors, proc_idx, interrupted,
                   toMain, wstate, wreq, werr, sock, output>>

\* _end_proc from proc.join() on: returns once the process has exited.
Join ==
    /\ pc \in {"join", "fjoin"}
    /\ ~IsAlive(cur)
    /\ status' = [status EXCEPT ![cur] = "dead"]
    /\ pc' = IF pc = "join" THEN "loop" ELSE "finally"
    /\ UNCHANGED <<connVars, callVars, meta, index, batch, batches, blocks, errors, proc_idx, cur,
                   interrupted, mainClosed, toWorker, toMain, wstate, wreq,
                   werr, sock, output>>

\* list.sort(key=begin): stable, ascending.
RECURSIVE InsertByBegin(_, _)
InsertByBegin(s, x) ==
    IF Len(s) = 0 THEN <<x>>
    ELSE IF s[Len(s)].begin <= x.begin THEN Append(s, x)
    ELSE Append(InsertByBegin(SubSeq(s, 1, Len(s) - 1), x), s[Len(s)])

RECURSIVE SortByBegin(_)
SortByBegin(s) ==
    IF Len(s) = 0 THEN <<>>
    ELSE InsertByBegin(SortByBegin(SubSeq(s, 1, Len(s) - 1)), s[Len(s)])

\* A faulty end of download(): the file is written before the blocks are
\* counted.
AfterFinallyWriteFirst ==
    /\ pc = "after"
    /\ output' = [exists |-> TRUE,
                  data |-> [i \in 1 .. Len(blocks) |-> SortByBegin(blocks)[i].block]]
    /\ pc' = IF interrupted THEN "raised"
             ELSE IF Len(blocks) < num_blocks THEN "failed"
             ELSE "ok"
    /\ UNCHANGED <<connVars, callVars, meta, index, status, batch, batches, blocks, errors,
                   proc_idx, cur, interrupted, mainClosed, toWorker, toMain,
                   wstate, wreq, werr, sock>>

\* download() after the finally block: the exception in flight is re-raised;
\* else the download failure is raised with blocks missing; else the blocks
\* are sorted and written.
AfterFinally ==
    /\ pc = "after"
    /\ IF interrupted
       THEN /\ pc' = "raised"
            /\ UNCHANGED output
       ELSE IF Len(blocks) < num_blocks
       THEN /\ pc' = "failed"
            /\ UNCHANGED output
       ELSE /\ output' = [exists |-> TRUE,
                          data |-> [i \in 1 .. Len(blocks) |->
                                        SortByBegin(blocks)[i].block]]
            /\ pc' = "ok"
    /\ UNCHANGED <<connVars, callVars, meta, index, status, batch, batches, blocks, errors,
                   proc_idx, cur, interrupted, mainClosed, toWorker, toMain,
                   wstate, wreq, werr, sock>>

\* An exception (KeyboardInterrupt) raised inside the loop.
Interrupt ==
    /\ pc \in {"loop", "h_ready", "recv", "join"}
    /\ interrupted' = TRUE
    /\ pc' = "finally"
    /\ UNCHANGED <<connVars, callVars, meta, index, status, batch, batches, blocks, errors,
                   proc_idx, cur, mainClosed, toWorker, toMain, wstate, wreq,
                   werr, sock, output>>

\* ------------------------------------------------------------ worker
\* What a peer may answer to one Request: the block asked for, or other bytes
\* under the same (index, begin).
PeerBlocks(req) ==
    {PieceMsg(req.index, req.begin, TrueBlock(req.begin)),
     PieceMsg(req.index, req.begin, CorruptBlock(req.begin))}

\* What PeerConnection.get_blocks may return for a batch: one Piece message
\* per request, in request order.
Answers(reqs) ==
    {ps \in [1 .. Len(reqs) -> UNION {PeerBlocks(reqs[i]) : i \in 1 .. Len(reqs)}] :
        \A i \in 1 .. Len(reqs) : ps[i] \in PeerBlocks(reqs[i])}

\* The exceptions a PeerConnection raises: ConnectionError (and EOFError) are
\* caught by _start_conn and reported; AssertionError, RuntimeError and the
\* like ("other") are not caught, and only the finally block runs.
Failures == {"ConnectionError", "other"}

Caught(e) == IF e = "ConnectionError" THEN e ELSE "none"

\* PeerConnection.__init__ inside `with`: the socket is created, then connect,
\* handshake and warm-up either all succeed or one of them raises.  A raise in
\* __init__ happens before the with-block is entered, so __exit__ (close) does
\* not run.
WorkerConnect(p) ==
    /\ wstate[p] = "connect"
    /\ sock' = [sock EXCEPT ![p] = "open"]
    /\ \/ /\ wstate' = [wstate EXCEPT ![p] = "idle"]
          /\ UNCHANGED werr
       \/ \E e \in Failures :
            /\ werr' = [werr EXCEPT ![p] = Caught(e)]
            /\ wstate' = [wstate EXCEPT ![p] = "finally"]
    /\ UNCHANGED <<connVars, callVars, meta, index, status, batch, batches, blocks, errors,
                   proc_idx, pc, cur, interrupted, mainClosed, toWorker,
                   toMain, wreq, output>>

\* pipe_proc.recv() in the worker loop: a batch to fetch, or the sentinel,
\* on which the worker returns through __exit__ (close).
WorkerRecv(p) ==
    /\ wstate[p] = "idle"
    /\ toWorker[p] /= <<>>
    /\ toWorker' = [toWorker EXCEPT ![p] = Tail(@)]
    /\ LET requests == Head(toWorker[p]) IN
       IF requests.kind = "none"
       THEN /\ sock' = [sock EXCEPT ![p] = "closed"]
            /\ wstate' = [wstate EXCEPT ![p] = "finally"]
            /\ UNCHANGED wreq
       ELSE /\ wreq' = [wreq EXCEPT ![p] = requests.reqs]
            /\ wstate' = [wstate EXCEPT ![p] = "fetch"]
            /\ UNCHANGED sock
    /\ UNCHANGED <<connVars, callVars, meta, index, status, batch, batches, blocks, errors,
                   proc_idx, pc, cur, interrupted, mainClosed, toMain, werr,
                   output>>

\* conn.get_blocks(requests) and pipe_proc.send(pieces); a raise in
\* get_blocks leaves the with-block through __exit__ (close).
WorkerGetBlocks(p) ==
    /\ wstate[p] = "fetch"
    /\ wreq' = [wreq EXCEPT ![p] = <<>>]
    /\ \/ \E pieces \in Answers(wreq[p]) :
            /\ toMain' = [toMain EXCEPT ![p] = Append(@, PiecesMsg(pieces))]
            /\ wstate' = [wstate EXCEPT ![p] = "idle"]
            /\ UNCHANGED <<sock, werr>>
       \/ \E e \in Failures :
            /\ sock' = [sock EXCEPT ![p] = "closed"]
            /\ werr' = [werr EXCEPT ![p] = Caught(e)]
            /\ wstate' = [wstate EXCEPT ![p] = "finally"]
            /\ UNCHANGED toMain
    /\ UNCHANGED <<connVars, callVars, meta, index, status, batch, batches, blocks, errors,
                   proc_idx, pc, cur, interrupted, mainClosed, toWorker,
                   output>>

\* The offset of the block after the one at begin, wrapping around the piece.
OtherBegin(begin) == (begin + BLOCK_SIZE) % (num_blocks * BLOCK_SIZE)

\* A Piece message that carries the block of another offset of the piece,
\* under that offset.
Misaddressed(req) ==
    PieceMsg(req.index, OtherBegin(req.begin), TrueBlock(OtherBegin(req.begin)))

\* conn.get_blocks(requests) against a peer that answers each Request with
\* the block of another offset: get_blocks checks only that each message is a
\* Piece message, and the worker sends the pieces on.
WorkerGetBlocksMisaddressed(p) ==
    /\ wstate[p] = "fetch"
    /\ num_blocks > 1
    /\ wreq' = [wreq EXCEPT ![p] = <<>>]
    /\ toMain' = [toMain EXCEPT ![p] =
                     Append(@, PiecesMsg([i \in 1 .. Len(wreq[p]) |->
                                            Misaddressed(wreq[p][i])]))]
    /\ wstate' = [wstate EXCEPT ![p] = "idle"]
    /\ UNCHANGED <<connVars, callVars, meta, index, status, batch, batches,
                   blocks, errors, proc_idx, pc, cur, interrupted, mainClosed,
                   toWorker, werr, sock, output>>

\* A faulty finally block of _start_conn: the pipe ends are closed without
\* `error` being sent.
WorkerFinallySilent(p) ==
    /\ wstate[p] = "finally"
    /\ wstate' = [wstate EXCEPT ![p] = "closing"]
    /\ UNCHANGED <<connVars, callVars, meta, index, status, batch, batches,
                   blocks, errors, proc_idx, pc, cur, interrupted, mainClosed,
                   toWorker, toMain, wreq, werr, sock, output>>

\* The finally block of _start_conn: the worker's own pipe ends are still
\* open, so `error` (an exception or None) is sent, then both are closed.
WorkerFinally(p) ==
    /\ wstate[p] = "finally"
    /\ toMain' = [toMain EXCEPT ![p] =
                     Append(@, IF werr[p] = "none" THEN NoneMsg
                               ELSE ErrorMsg(werr[p]))]
    /\ wstate' = [wstate EXCEPT ![p] = "closing"]
    /\ UNCHANGED <<connVars, callVars, meta, index, status, batch, batches, blocks, errors,
                   proc_idx, pc, cur, interrupted, mainClosed, toWorker, wreq,
                   werr, sock, output>>

\* The worker process ends.
WorkerExit(p) ==
    /\ wstate[p] = "closing"
    /\ wstate' = [wstate EXCEPT ![p] = "exited"]
    /\ UNCHANGED <<connVars, callVars, meta, index, status, batch, batches, blocks, errors,
                   proc_idx, pc, cur, interrupted, mainClosed, toWorker,
                   toMain, wreq, werr, sock, output>>

\* ---------------------------------------------------- specifications
MainNext ==
    \/ HandleUninit
    \/ HandleReady
    \/ HandleReadyChained
    \/ HandleWorking
    \/ Recv
    \/ SkipDead
    \/ ExitLoop
    \/ Finally
    \/ Join
    \/ AfterFinally

WorkerNext(p) ==
    \/ WorkerConnect(p)
    \/ WorkerRecv(p)
    \/ WorkerGetBlocks(p)
    \/ WorkerFinally(p)
    \/ WorkerExit(p)

Next == MainNext \/ \E p \in Procs : WorkerNext(p)

Spec == Init /\ [][Next]_vars

\* The scheduler when an exception may be raised inside its loop.
NextInterrupt == Next \/ Interrupt

SpecInterrupt == Init /\ [][NextInterrupt]_vars

\* The scheduler with peers that may answer a Request with the block of
\* another offset.
NextMisaddressed == Next \/ \E p \in Procs : WorkerGetBlocksMisaddressed(p)

SpecMisaddressed == Init /\ [][NextMisaddressed]_vars

\* The operating system runs every process: the orchestrator and each
\* started worker take their next step when they can.
FairSpec ==
    /\ Spec
    /\ WF_vars(MainNext)
    /\ \A p \in Procs : WF_vars(WorkerNext(p))

\* ---------------------------------------------- the wire, byte by byte
\* b"BitTorrent protocol"
PROTO_NAME ==
    <<66, 105, 116, 84, 111, 114, 114, 101, 110, 116, 32,
      112, 114, 111, 116, 111, 99, 111, 108>>

PROTO_NAME_LENGTH == Len(PROTO_NAME)

PAD_8 == [i \in 1 .. 8 |-> 0]

\* main.PEER_ID, b"00112233445566778899"
PEER_ID == [i \in 1 .. 20 |-> 48 + (((i - 1) \div 2) % 10)]

\* meta_info.get_info_hash() of the local torrent, the hash of another
\* torrent, and the id of the remote peer: 20 bytes each.
LocalInfoHash == [i \in 1 .. 20 |-> 17]
OtherInfoHash == [i \in 1 .. 20 |-> 34]
RemotePeerId == [i \in 1 .. 20 |-> 80]

\* struct "!I": four bytes, big-endian.
PackU32(n) ==
    <<(n \div 16777216) % 256, (n \div 65536) % 256, (n \div 256) % 256, n % 256>>

UnpackU32(b) == ((b[1] * 256 + b[2]) * 256 + b[3]) * 256 + b[4]

\* HandshakeMessage.pack
HandshakePack(pnl, pn, pad, info_hash, peer_id) ==
    <<pnl>> \o pn \o pad \o info_hash \o peer_id

\* A message as the peer frames it: length, id, payload.
Frame(id, payload) == PackU32(1 + Len(payload)) \o <<id>> \o payload

\* The block of a Piece message whose last byte the peer never delivers.
TruncBlock == <<204, 205>>

\* The bytes of each frame a peer script is made of.
FrameBytes(f) ==
    CASE f = "hs_good" ->
           HandshakePack(PROTO_NAME_LENGTH, PROTO_NAME, PAD_8, LocalInfoHash, RemotePeerId)
      [] f = "hs_badhash" ->
           HandshakePack(PROTO_NAME_LENGTH, PROTO_NAME, PAD_8, OtherInfoHash, RemotePeerId)
      [] f = "hs_badproto" ->
           HandshakePack(PROTO_NAME_LENGTH, [PROTO_NAME EXCEPT ![1] = 98], PAD_8,
                         LocalInfoHash, RemotePeerId)
      [] f = "hs_short" ->
           SubSeq(HandshakePack(PROTO_NAME_LENGTH, PROTO_NAME, PAD_8, LocalInfoHash,
                                RemotePeerId), 1, HANDSHAKE_LENGTH - 1)
      [] f = "keepalive" -> PackU32(0)
      [] f = "unchoke" -> Frame(1, <<>>)
      [] f = "have" -> Frame(4, PackU32(0))
      [] f = "bitfield" -> Frame(5, <<255>>)
      [] f = "piece0" -> Frame(7, PackU32(0) \o PackU32(0) \o <<170>>)
      [] f = "piece1" -> Frame(7, PackU32(0) \o PackU32(BLOCK_SIZE) \o <<187>>)
      [] f = "unknown" -> Frame(9, <<>>)
      [] f = "piece_trunc" ->
           LET whole == Frame(7, PackU32(0) \o PackU32(0) \o TruncBlock) IN
           SubSeq(whole, 1, Len(whole) - 1)

RECURSIVE Wire(_)
Wire(fs) == IF Len(fs) = 0 THEN <<>> ELSE FrameBytes(Head(fs)) \o Wire(Tail(fs))

Handshakes == {"hs_good", "hs_badhash", "hs_badproto", "hs_short"}

Frames ==
    {"keepalive", "unchoke", "have", "bitfield", "piece0", "piece1", "unknown",
     "piece_trunc"}

RECURSIVE FrameSeqs(_)
FrameSeqs(n) ==
    IF n = 0 THEN {<<>>}
    ELSE LET shorter == FrameSeqs(n - 1) IN
         shorter \cup {Append(fs, f) : fs \in {x \in shorter : Len(x) = n - 1}, f \in Frames}

\* What a peer sends before it closes the connection: a handshake, then, after
\* a handshake the client can read in full, up to MaxFrames frames.
Scripts ==
    {<<h>> : h \in Handshakes} \cup
    {<<h>> \o fs : h \in Handshakes \ {"hs_short"}, fs \in FrameSeqs(MaxFrames)}

\* BufferedReader.read(n) at the head of stream s: n bytes, or what is left
\* when the peer has closed; everything left for n < 0.
Read(s, n) ==
    LET k == IF n < 0 \/ n > Len(s) THEN Len(s) ELSE n IN
    [data |-> SubSeq(s, 1, k), rest |-> SubSeq(s, k + 1, Len(s))]

Raise(e, rest) == [err |-> e, msg |-> [id |-> 0], rest |-> rest]

Return(m, rest) == [err |-> "none", msg |-> m, rest |-> rest]

\* HandshakeMessage.unpack: the five fields, with pstrlen and pstr asserted.
HandshakeUnpack(data, rest) ==
    LET msg == <<data[1], SubSeq(data, 2, 20), SubSeq(data, 21, 28),
                 SubSeq(data, 29, 48), SubSeq(data, 49, 68)>> IN
    IF msg[1] /= PROTO_NAME_LENGTH THEN Raise("AssertionError", rest)
    ELSE IF msg[2] /= PROTO_NAME THEN Raise("AssertionError", rest)
    ELSE Return(msg, rest)

\* recv_handshake
RecvHandshake(s) ==
    LET r == Read(s, HANDSHAKE_LENGTH) IN
    IF Len(r.data) /= HANDSHAKE_LENGTH
    THEN Raise("ConnectionError", r.rest)
    ELSE HandshakeUnpack(r.data, r.rest)

\* The keys of _MSG_CLASS_MAP.
MSG_CLASS_MAP == {1, 2, 5, 6, 7}

\* cls._unpack_payload for the message id
UnpackPayload(id, data, rest) ==
    CASE id \in {1, 2} ->
           IF Len(data) /= 0 THEN Raise("AssertionError", rest)
           ELSE Return([id |-> id], rest)
      [] id = 5 -> Return([id |-> id], rest)
      [] id = 6 -> Raise("NotImplementedError", rest)
      [] id = 7 ->
           IF Len(data) - 8 < 0 THEN Raise("struct.error", rest)
           ELSE Return([id |-> id,
                        index |-> UnpackU32(SubSeq(data, 1, 4)),
                        begin |-> UnpackU32(SubSeq(data, 5, 8)),
                        block |-> SubSeq(data, 9, Len(data))], rest)

\* read_msg
ReadMsg(s) ==
    LET h == Read(s, MSG_HEADER_LENGTH) IN
    IF Len(h.data) /= MSG_HEADER_LENGTH
    THEN Raise("ConnectionError", h.rest)
    ELSE LET size == UnpackU32(h.data)
             id == h.data[5] IN
         IF id \notin MSG_CLASS_MAP
         THEN Raise("RuntimeError", h.rest)
         ELSE LET payload == Read(h.rest, size - 1) IN
              UnpackPayload(id, payload.data, payload.rest)

\* A faulty read loop of get_blocks: each part is put in front of the list.
RECURSIVE ReadPartsNewestFirst(_, _, _, _)
ReadPartsNewestFirst(n, s, acc, read) ==
    IF n = 0 THEN [err |-> "none", parts |-> acc, read |-> read, rest |-> s]
    ELSE LET r == ReadMsg(s) IN
         IF r.err /= "none"
         THEN [err |-> r.err, parts |-> acc, read |-> read, rest |-> r.rest]
         ELSE IF r.msg.id /= 7
         THEN [err |-> "AssertionError", parts |-> acc,
               read |-> Append(read, r.msg), rest |-> r.rest]
         ELSE ReadPartsNewestFirst(
                  n - 1, r.rest,
                  <<PieceMsg(r.msg.index, r.msg.begin, r.msg.block)>> \o acc,
                  Append(read, r.msg))

\* The loop of get_blocks that reads one message per request and asserts that
\* each is a Piece message: the parts appended so far, the messages read from
\* the stream, the stream left, the error.
RECURSIVE ReadParts(_, _, _, _)
ReadParts(n, s, acc, read) ==
    IF n = 0 THEN [err |-> "none", parts |-> acc, read |-> read, rest |-> s]
    ELSE LET r == ReadMsg(s) IN
         IF r.err /= "none"
         THEN [err |-> r.err, parts |-> acc, read |-> read, rest |-> r.rest]
         ELSE IF r.msg.id /= 7
         THEN [err |-> "AssertionError", parts |-> acc,
               read |-> Append(read, r.msg), rest |-> r.rest]
         ELSE ReadParts(n - 1, r.rest,
                        Append(acc, PieceMsg(r.msg.index, r.msg.begin, r.msg.block)),
                        Append(read, r.msg))

\* The class of a message id in _MSG_CLASS_MAP.
MsgName(id) ==
    CASE id = 1 -> "Unchoke"
      [] id = 2 -> "Interested"
      [] id = 5 -> "Bitfield"
      [] id = 6 -> "Request"
      [] id = 7 -> "Piece"

\* An entry of the log of _io: a message written, or a message read.
Sent(m) == [dir |-> "send", name |-> m.msg, msg |-> m]

Received(name, m) == [dir |-> "recv", name |-> name, msg |-> m]

\* The error of get_blocks on a connection that is not ready.
NotReady == "RuntimeError: not ready"

\* The batches get_blocks is called with.
RequestBatches ==
    {<<RequestMsg(0, 0, BLOCK_SIZE)>>,
     <<RequestMsg(0, 0, BLOCK_SIZE), RequestMsg(0, BLOCK_SIZE, BLOCK_SIZE)>>}

\* ------------------------------------------------- one PeerConnection
\* A raise inside __init__: the object is never handed to the caller, and
\* close() is not called.
ConnFail(e) ==
    /\ cerr' = e
    /\ cpc' = "failed"

\* __init__: socket(), connect(), makefile().
ConnOpen ==
    /\ cpc = "new"
    /\ c_socket' = "open"
    /\ \/ cpc' = "send_handshake" /\ UNCHANGED cerr
       \/ ConnFail("ConnectionError")
    /\ UNCHANGED <<schedVars, callVars, script, only_handshake, rx, tx, c_ready,
                   c_handshake, parts, iolog>>

\* __init__: send_handshake.
ConnSendHandshake ==
    /\ cpc = "send_handshake"
    /\ LET m == [msg |-> "Handshake", info_hash |-> LocalInfoHash,
                 peer_id |-> PEER_ID] IN
       /\ tx' = Append(tx, m)
       /\ iolog' = Append(iolog, Sent(m))
    /\ cpc' = "recv_handshake"
    /\ UNCHANGED <<schedVars, callVars, script, only_handshake, rx, c_socket, c_ready,
                   c_handshake, cerr, parts>>

\* __init__: recv_handshake, and the return of a handshake-only connection.
ConnRecvHandshake ==
    /\ cpc = "recv_handshake"
    /\ LET r == RecvHandshake(rx) IN
       /\ rx' = r.rest
       /\ IF r.err /= "none"
          THEN ConnFail(r.err) /\ UNCHANGED <<c_handshake, iolog>>
          ELSE /\ c_handshake' = r.msg
               /\ iolog' = Append(iolog, Received("Handshake", r.msg))
               /\ cpc' = IF only_handshake THEN "handshaken" ELSE "read_bitfield"
               /\ UNCHANGED cerr
    /\ UNCHANGED <<schedVars, callVars, script, only_handshake, tx, c_socket, c_ready,
                   parts>>

\* __init__: the first message must be a Bitfield.
ConnReadBitfield ==
    /\ cpc = "read_bitfield"
    /\ LET r == ReadMsg(rx) IN
       /\ rx' = r.rest
       /\ iolog' = IF r.err /= "none" THEN iolog
                   ELSE Append(iolog, Received(MsgName(r.msg.id), r.msg))
       /\ IF r.err /= "none" THEN ConnFail(r.err)
          ELSE IF r.msg.id /= 5 THEN ConnFail("AssertionError")
          ELSE cpc' = "send_interested" /\ UNCHANGED cerr
    /\ UNCHANGED <<schedVars, callVars, script, only_handshake, tx, c_socket, c_ready,
                   c_handshake, parts>>

\* __init__: send Interested.
ConnSendInterested ==
    /\ cpc = "send_interested"
    /\ tx' = Append(tx, [msg |-> "Interested"])
    /\ iolog' = Append(iolog, Sent([msg |-> "Interested"]))
    /\ cpc' = "read_unchoke"
    /\ UNCHANGED <<schedVars, callVars, script, only_handshake, rx, c_socket, c_ready,
                   c_handshake, cerr, parts>>

\* __init__: the next message must be Unchoke; then the connection is ready.
ConnReadUnchoke ==
    /\ cpc = "read_unchoke"
    /\ LET r == ReadMsg(rx) IN
       /\ rx' = r.rest
       /\ iolog' = IF r.err /= "none" THEN iolog
                   ELSE Append(iolog, Received(MsgName(r.msg.id), r.msg))
       /\ IF r.err /= "none" THEN ConnFail(r.err) /\ UNCHANGED c_ready
          ELSE IF r.msg.id /= 1 THEN ConnFail("AssertionError") /\ UNCHANGED c_ready
          ELSE /\ c_ready' = TRUE
               /\ cpc' = "ready"
               /\ UNCHANGED cerr
    /\ UNCHANGED <<schedVars, callVars, script, only_handshake, tx, c_socket,
                   c_handshake, parts>>

\* PeerConnection.close
Close ==
    /\ c_ready' = FALSE
    /\ c_socket' = IF c_socket = "open" THEN "closed" ELSE c_socket

\* A faulty guard of get_blocks: the state of the connection is not looked at.
GetBlocksAlways == TRUE

\* The guard of get_blocks: self._ready.
GetBlocksReady == c_ready

\* get_blocks on a connection that was constructed: in the with-block of
\* _start_conn, on a handshake-only connection, or after close().  A
\* connection that is not ready raises at once.  Otherwise every request is
\* sent, then one message per request is read; a raise leaves the with-block
\* through __exit__.
ConnGetBlocks ==
    /\ cpc \in {"ready", "handshaken", "closed"}
    /\ \E requests \in RequestBatches :
        IF ~GetBlocksReady
        THEN /\ cerr' = NotReady
             /\ UNCHANGED <<cpc, c_ready, c_socket, tx, rx, parts, iolog>>
        ELSE LET r == ReadParts(Len(requests), rx, <<>>, <<>>)
                 sent == [i \in 1 .. Len(requests) |->
                            [msg |-> "Request", index |-> requests[i].index,
                             begin |-> requests[i].begin,
                             length |-> requests[i].length]] IN
             /\ tx' = tx \o sent
             /\ iolog' = iolog \o [i \in 1 .. Len(sent) |-> Sent(sent[i])]
                               \o [i \in 1 .. Len(r.read) |->
                                      Received(MsgName(r.read[i].id), r.read[i])]
             /\ rx' = r.rest
             /\ IF r.err /= "none"
                THEN /\ cerr' = r.err
                     /\ cpc' = "closed"
                     /\ Close
                     /\ UNCHANGED parts
                ELSE /\ parts' = r.parts
                     /\ UNCHANGED <<cerr, cpc, c_ready, c_socket>>
    /\ UNCHANGED <<schedVars, callVars, script, only_handshake, c_handshake>>

\* The sentinel: _start_conn returns from inside the with-block (__exit__).
ConnExit ==
    /\ cpc = "ready"
    /\ cpc' = "closed"
    /\ Close
    /\ UNCHANGED <<schedVars, callVars, script, only_handshake, rx, tx, c_handshake,
                   cerr, parts, iolog>>

\* A PeerConnection is about to be constructed against a peer that will send
\* the bytes of one of the scripts; no download is running.
InitPeer ==
    /\ Downloader(CHOOSE m \in Metas : m.npieces = 1 /\ m.piece_length = BLOCK_SIZE, 0)
    /\ pc = "off"
    /\ script \in Scripts
    /\ only_handshake \in BOOLEAN
    /\ only_handshake => Len(script) = 1
    /\ rx = Wire(script)
    /\ tx = <<>>
    /\ cpc = "new"
    /\ c_socket = "none"
    /\ c_ready = FALSE
    /\ c_handshake = <<>>
    /\ cerr = "none"
    /\ parts = <<>>
    /\ iolog = <<>>
    /\ CallOff

NextPeer ==
    \/ ConnOpen
    \/ ConnSendHandshake
    \/ ConnRecvHandshake
    \/ ConnReadBitfield
    \/ ConnSendInterested
    \/ ConnReadUnchoke
    \/ ConnGetBlocks
    \/ ConnExit

SpecPeer == InitPeer /\ [][NextPeer]_vars

\* ---------------------------------------------------------- bencoding
BYTE_I == 105
BYTE_L == 108
BYTE_D == 100
BYTE_E == 101
BYTE_0 == 48
BYTE_9 == 57
BYTE_COL == 58
BYTE_MINUS == 45
BYTE_PLUS == 43

\* bytes.index(b, from): the 0-based position of the first b at or after
\* from; -1 stands for the ValueError raised when there is none.
RECURSIVE BytesIndex(_, _, _)
BytesIndex(input, b, from) ==
    IF from >= Len(input) THEN -1
    ELSE IF input[from + 1] = b THEN from
    ELSE BytesIndex(input, b, from + 1)

\* input[a:b] for 0 <= a: a slice never raises, it stops at the end of input.
Slice(input, a, b) == SubSeq(input, a + 1, Min(b, Len(input)))

IsDigit(b) == BYTE_0 <= b /\ b <= BYTE_9

RECURSIVE DigitsValue(_, _)
DigitsValue(ds, acc) ==
    IF Len(ds) = 0 THEN acc
    ELSE DigitsValue(Tail(ds), 10 * acc + (Head(ds) - BYTE_0))

\* int(bytes): an optional sign and decimal digits (leading zeros allowed);
\* ValueError for the empty string and for any other byte of the inputs.
ParseInt(bs) ==
    LET signed == Len(bs) > 0 /\ bs[1] \in {BYTE_MINUS, BYTE_PLUS}
        ds == IF signed THEN Tail(bs) ELSE bs IN
    IF Len(ds) = 0 \/ \E k \in 1 .. Len(ds) : ~IsDigit(ds[k])
    THEN [err |-> "ValueError", int |-> 0]
    ELSE [err |-> "none",
          int |-> IF signed /\ bs[1] = BYTE_MINUS
                  THEN 0 - DigitsValue(ds, 0) ELSE DigitsValue(ds, 0)]

\* str(int): decimal digits, with a minus sign for a negative number.
RECURSIVE Digits(_)
Digits(n) ==
    IF n < 10 THEN <<BYTE_0 + n>>
    ELSE Append(Digits(n \div 10), BYTE_0 + (n % 10))

IntStr(n) == IF n < 0 THEN <<BYTE_MINUS>> \o Digits(0 - n) ELSE Digits(n)

\* str(bytes, "utf-8"): one code point per ASCII byte and per two-byte
\* sequence; UnicodeDecodeError for a byte that starts or continues nothing.
\* (No input holds a lead byte of a three- or four-byte sequence.)
RECURSIVE Utf8Decode(_, _)
Utf8Decode(bs, acc) ==
    IF Len(bs) = 0 THEN [err |-> "none", chars |-> acc]
    ELSE IF bs[1] < 128 THEN Utf8Decode(Tail(bs), Append(acc, bs[1]))
    ELSE IF /\ bs[1] >= 194
            /\ bs[1] <= 223
            /\ Len(bs) >= 2
            /\ bs[2] >= 128
            /\ bs[2] <= 191
    THEN Utf8Decode(SubSeq(bs, 3, Len(bs)),
                    Append(acc, (bs[1] - 192) * 64 + (bs[2] - 128)))
    ELSE [err |-> "UnicodeDecodeError", chars |-> <<>>]

\* str.encode(): UTF-8 of code points below 2048.
RECURSIVE Utf8Encode(_)
Utf8Encode(chars) ==
    IF Len(chars) = 0 THEN <<>>
    ELSE (IF Head(chars) < 128 THEN <<Head(chars)>>
          ELSE <<192 + (Head(chars) \div 64), 128 + (Head(chars) % 64)>>)
         \o Utf8Encode(Tail(chars))

\* Python values: int, bytes, str, list, and dict as its items in insertion
\* order.
IntValue(n) == [t |-> "int", int |-> n]
BytesValue(bs) == [t |-> "bytes", bytes |-> bs]
StrValue(cs) == [t |-> "str", chars |-> cs]
ListValue(items) == [t |-> "list", items |-> items]
DictValue(items) == [t |-> "dict", items |-> items]

DecodeRaise(e) == [err |-> e, value |-> [t |-> "none"], next |-> 0]

DecodeReturn(v, next) == [err |-> "none", value |-> v, next |-> next]

\* key == other for the hashable keys, ints and strs.
KeyEq(a, b) ==
    IF a.t /= b.t THEN FALSE
    ELSE IF a.t = "str" THEN a.chars = b.chars
    ELSE a.int = b.int

\* dict_value[key] = value: a key already present keeps its place.
DictSet(items, key, value) ==
    IF \E i \in 1 .. Len(items) : KeyEq(items[i].key, key)
    THEN [i \in 1 .. Len(items) |->
             IF KeyEq(items[i].key, key)
             THEN [key |-> items[i].key, value |-> value] ELSE items[i]]
    ELSE Append(items, [key |-> key, value |-> value])

\* _decode_bencode_impl(input, start_idx), with the loops of its list and
\* dictionary branches.
RECURSIVE decode_bencode_impl(_, _), DecodeListLoop(_, _, _), DecodeDictLoop(_, _, _)
decode_bencode_impl(input, start_idx) ==
    IF start_idx >= Len(input) THEN DecodeRaise("IndexError")
    ELSE LET prefix == input[start_idx + 1] IN
         CASE prefix = BYTE_I ->
                LET end_idx == BytesIndex(input, BYTE_E, start_idx + 2) IN
                IF end_idx < 0 THEN DecodeRaise("ValueError")
                ELSE LET int_value == ParseInt(Slice(input, start_idx + 1, end_idx)) IN
                     IF int_value.err /= "none" THEN DecodeRaise(int_value.err)
                     ELSE DecodeReturn(IntValue(int_value.int), end_idx + 1)
           [] IsDigit(prefix) ->
                LET col_idx == BytesIndex(input, BYTE_COL, start_idx + 1) IN
                IF col_idx < 0 THEN DecodeRaise("ValueError")
                ELSE LET length == ParseInt(Slice(input, start_idx, col_idx)) IN
                     IF length.err /= "none" THEN DecodeRaise(length.err)
                     ELSE LET end_idx == col_idx + 1 + length.int IN
                          DecodeReturn(BytesValue(Slice(input, col_idx + 1, end_idx)),
                                       end_idx)
           [] prefix = BYTE_L -> DecodeListLoop(input, start_idx + 1, <<>>)
           [] prefix = BYTE_D -> DecodeDictLoop(input, start_idx + 1, <<>>)
           [] OTHER -> DecodeRaise("ValueError")

DecodeListLoop(input, idx, list_value) ==
    IF idx >= Len(input) THEN DecodeRaise("IndexError")
    ELSE IF input[idx + 1] = BYTE_E THEN DecodeReturn(ListValue(list_value), idx + 1)
    ELSE LET r == decode_bencode_impl(input, idx) IN
         IF r.err /= "none" THEN r
         ELSE DecodeListLoop(input, r.next, Append(list_value, r.value))

DecodeDictLoop(input, idx, dict_value) ==
    IF idx >= Len(input) THEN DecodeRaise("IndexError")
    ELSE IF input[idx + 1] = BYTE_E THEN DecodeReturn(DictValue(dict_value), idx + 1)
    ELSE LET k == decode_bencode_impl(input, idx) IN
         IF k.err /= "none" THEN k
         ELSE LET s == IF k.value.t = "bytes"
                       THEN Utf8Decode(k.value.bytes, <<>>)
                       ELSE [err |-> "none", chars |-> <<>>]
                  key == IF k.value.t = "bytes" THEN StrValue(s.chars) ELSE k.value IN
              IF s.err /= "none" THEN DecodeRaise(s.err)
              ELSE LET v == decode_bencode_impl(input, k.next) IN
                   IF v.err /= "none" THEN v
                   ELSE IF key.t \in {"list", "dict"} THEN DecodeRaise("TypeError")
                   ELSE DecodeDictLoop(input, v.next, DictSet(dict_value, key, v.value))

\* decode_bencode: the first value of the input; what follows it is not read.
decode_bencode(bencoded_value) ==
    LET r == decode_bencode_impl(bencoded_value, 0) IN
    [err |-> r.err, value |-> r.value]

\* encode_bencode, with the loops of its list and dictionary branches.  A str
\* is written with its number of characters, then encoded to UTF-8.
RECURSIVE encode_bencode(_), EncodeListLoop(_), EncodeDictLoop(_)
encode_bencode(value) ==
    CASE value.t = "int" -> <<BYTE_I>> \o IntStr(value.int) \o <<BYTE_E>>
      [] value.t = "bytes" -> IntStr(Len(value.bytes)) \o <<BYTE_COL>> \o value.bytes
      [] value.t = "str" ->
           Utf8Encode(IntStr(Len(value.chars)) \o <<BYTE_COL>> \o value.chars)
      [] value.t = "list" -> <<BYTE_L>> \o EncodeListLoop(value.items) \o <<BYTE_E>>
      [] value.t = "dict" -> <<BYTE_D>> \o EncodeDictLoop(value.items) \o <<BYTE_E>>

EncodeListLoop(items) ==
    IF Len(items) = 0 THEN <<>>
    ELSE encode_bencode(Head(items)) \o EncodeListLoop(Tail(items))

EncodeDictLoop(items) ==
    IF Len(items) = 0 THEN <<>>
    ELSE encode_bencode(Head(items).key) \o encode_bencode(Head(items).value)
         \o EncodeDictLoop(Tail(items))

\* -------------------------------------------------- inputs of the codec
\* Canonical bencoded inputs: integers, byte strings (empty, ASCII, the two
\* bytes of a UTF-8 character, a byte that is no UTF-8), lists of up to
\* MaxItems of them, and dictionaries of up to MaxItems keys in sorted order
\* whose values are an integer, a byte string, a list or a dictionary.
Ints == {0, 3, 0 - 1, 12}

ByteStrings == {<<>>, <<97>>, <<97, 98>>, <<195, 169>>, <<255>>}

DictKeys == <<<<97>>, <<97, 98>>, <<195, 169>>, <<255>>>>

CanonInt(n) == <<BYTE_I>> \o IntStr(n) \o <<BYTE_E>>

CanonBytes(bs) == IntStr(Len(bs)) \o <<BYTE_COL>> \o bs

Atoms == {CanonInt(n) : n \in Ints} \cup {CanonBytes(bs) : bs \in ByteStrings}

RECURSIVE ListBodies(_)
ListBodies(n) ==
    IF n = 0 THEN {<<>>}
    ELSE LET shorter == ListBodies(n - 1) IN
         shorter \cup {a \o b : a \in shorter, b \in Atoms}

DictValues ==
    {CanonInt(3), CanonBytes(<<195, 169>>), <<BYTE_L, BYTE_E>>,
     <<BYTE_D>> \o CanonBytes(<<97>>) \o CanonInt(0) \o <<BYTE_E>>}

RECURSIVE DictBodies(_, _)
DictBodies(from, n) ==
    IF n = 0 THEN {<<>>}
    ELSE {<<>>} \cup
         UNION {{CanonBytes(DictKeys[j]) \o v \o rest :
                    v \in DictValues, rest \in DictBodies(j + 1, n - 1)} :
                j \in from .. Len(DictKeys)}

Canonical ==
    Atoms
    \cup {<<BYTE_L>> \o body \o <<BYTE_E>> : body \in ListBodies(MaxItems)}
    \cup {<<BYTE_D>> \o body \o <<BYTE_E>> : body \in DictBodies(1, MaxItems)}

\* Malformed inputs: every canonical input cut short (among them the
\* non-terminated lists and dictionaries), the empty integer "ie", the byte
\* string "3:ab" that announces more than there is, and inputs that start
\* with a byte that begins no value.
Truncations == UNION {{SubSeq(x, 1, k) : k \in 0 .. (Len(x) - 1)} : x \in Canonical}

Malformed ==
    Truncations
    \cup {<<BYTE_I, BYTE_E>>, <<51, BYTE_COL, 97, 98>>}
    \cup {<<120>> \o x : x \in Atoms \cup {<<>>}}

\* ------------------------------------------------- the tracker response
KEY_INTERVAL == <<105, 110, 116, 101, 114, 118, 97, 108>>
KEY_COMPLETE == <<99, 111, 109, 112, 108, 101, 116, 101>>
KEY_INCOMPLETE == <<105, 110>> \o KEY_COMPLETE
KEY_MIN_INTERVAL == <<109, 105, 110, 32>> \o KEY_INTERVAL
KEY_PEERS == <<112, 101, 101, 114, 115>>

\* values[key] on a decoded value: KeyError for a dictionary without the key,
\* TypeError for a value that is no dictionary.
GetItem(values, key) ==
    IF values.t /= "dict" THEN [err |-> "TypeError", value |-> [t |-> "none"]]
    ELSE IF \E i \in 1 .. Len(values.items) : KeyEq(values.items[i].key, StrValue(key))
    THEN [err |-> "none",
          value |-> values.items[CHOOSE i \in 1 .. Len(values.items) :
                                    KeyEq(values.items[i].key, StrValue(key))].value]
    ELSE [err |-> "KeyError", value |-> [t |-> "none"]]

Address(ip, port) == [ip |-> ip, port |-> port]

\* Address.from_bytes_to_many: one address per 6-byte record, the ip as
\* dotted decimal text and the port big-endian.
from_bytes_to_many(data) ==
    IF data.t /= "bytes" THEN [err |-> "TypeError", addresses |-> <<>>]
    ELSE IF Len(data.bytes) % 6 /= 0 THEN [err |-> "AssertionError", addresses |-> <<>>]
    ELSE [err |-> "none",
          addresses |->
              [k \in 1 .. (Len(data.bytes) \div 6) |->
                  LET ip == SubSeq(data.bytes, 6 * k - 5, 6 * k - 2)
                      port == 256 * data.bytes[6 * k - 1] + data.bytes[6 * k]
                      ip_str == IntStr(ip[1]) \o <<46>> \o IntStr(ip[2]) \o <<46>>
                                \o IntStr(ip[3]) \o <<46>> \o IntStr(ip[4]) IN
                  Address(ip_str, port)]]

\* PeersResponse.__init__: the five fields are read in this order, and the
\* first lookup that fails raises.
PeersResponse(data) ==
    LET d == decode_bencode(data)
        Failed(e) == [err |-> e, addresses |-> <<>>] IN
    IF d.err /= "none" THEN Failed(d.err)
    ELSE LET values == d.value
             interval == GetItem(values, KEY_INTERVAL)
             complete == GetItem(values, KEY_COMPLETE)
             incomplete == GetItem(values, KEY_INCOMPLETE)
             min_interval == GetItem(values, KEY_MIN_INTERVAL)
             peers == GetItem(values, KEY_PEERS) IN
         IF interval.err /= "none" THEN Failed(interval.err)
         ELSE IF complete.err /= "none" THEN Failed(complete.err)
         ELSE IF incomplete.err /= "none" THEN Failed(incomplete.err)
         ELSE IF min_interval.err /= "none" THEN Failed(min_interval.err)
         ELSE IF peers.err /= "none" THEN Failed(peers.err)
         ELSE from_bytes_to_many(peers.value)

\* Compact peer records, and the peers strings a tracker sends: up to
\* MaxItems records, or a string that is no whole number of records.
PeerRecords == {<<127, 0, 0, 1, 26, 225>>, <<10, 0, 0, 2, 0, 80>>}

RECURSIVE PeersStrings(_)
PeersStrings(n) ==
    IF n = 0 THEN {<<>>}
    ELSE LET shorter == PeersStrings(n - 1) IN
         shorter \cup {a \o b : a \in shorter, b \in PeerRecords}

\* A response body with the peers key alone, and one with all five keys.
OnlyPeers(p) ==
    <<BYTE_D>> \o CanonBytes(KEY_PEERS) \o CanonBytes(p) \o <<BYTE_E>>

FullBody(p) ==
    <<BYTE_D>> \o CanonBytes(KEY_COMPLETE) \o CanonInt(1)
    \o CanonBytes(KEY_INCOMPLETE) \o CanonInt(0)
    \o CanonBytes(KEY_INTERVAL) \o CanonInt(60)
    \o CanonBytes(KEY_MIN_INTERVAL) \o CanonInt(30)
    \o CanonBytes(KEY_PEERS) \o CanonBytes(p) \o <<BYTE_E>>

TrackerBodies ==
    UNION {{OnlyPeers(p), FullBody(p)} :
              p \in PeersStrings(MaxItems) \cup {<<127, 0, 0, 1, 26>>}}

\* ------------------------------------------------------------ the CLI
\* The sub-commands of parse_args.
Commands ==
    {"decode", "info", "peers", "handshake", "download_piece", "download",
     "magnet_parse"}

\* The names bound in the namespace of app/requests.py: its imports, classes
\* and functions.
RequestsNames ==
    {"dataclass", "batched", "ceil", "Process", "Connection", "Pipe", "Path",
     "Literal", "cast", "decode_bencode", "PeerConnection", "PieceMsg",
     "RequestMsg", "Address", "get_request", "MetaInfo", "MetaInfoFile",
     "PeersResponse", "fetch_peers", "download_piece", "Proc", "_Downloader",
     "_start_conn"}

\* The names main.py imports from app.requests.
MainImports == {"download", "download_piece", "fetch_peers"}

\* from <module> import <names>: ImportError for a name the module lacks.
ImportFrom(names, namespace) ==
    IF names \subseteq namespace THEN "none" ELSE "ImportError"

\* The function the branch of main() for a command calls.
Dispatch(command) ==
    CASE command = "decode" -> "decode_bencode"
      [] command = "info" -> "MetaInfoFile.from_file"
      [] command = "peers" -> "fetch_peers"
      [] command = "handshake" -> "PeerConnection"
      [] command = "download_piece" -> "download_piece"
      [] command = "download" -> "download"
      [] command = "magnet_parse" -> "parse_magnet_link"

\* The torrents a piece is split for: piece lengths and file lengths on, just
\* above and just below the multiples of the block size and of the piece
\* length, with one digest per piece; and the indexes asked for, the two just
\* outside the valid range included.
SplitPieceLengths ==
    {BLOCK_SIZE * k + r : k \in 0 .. MaxBlocks,
                          r \in {0, 1, BLOCK_SIZE \div 2, BLOCK_SIZE - 1}}
        \ {0, 1}

SplitLengths(pl) ==
    {pl * j + r : j \in 0 .. 2, r \in {0, 1, BLOCK_SIZE, pl - 1}} \ {0}

SplitMetas ==
    UNION {{[piece_length |-> pl, length |-> l, npieces |-> Ceil(l, pl)] :
               l \in SplitLengths(pl)} : pl \in SplitPieceLengths}

SplitArgs ==
    UNION {{[meta |-> m, index |-> i] : i \in (0 - 1) .. m.npieces} : m \in SplitMetas}

\* _Downloader.__init__ up to the list of batches: the index is checked, the
\* piece is measured and split into requests.
DownloaderSplit(m, i) ==
    IF i < 0 \/ i >= m.npieces
    THEN [err |-> "ValueError", piece_length |-> 0, num_blocks |-> 0,
          requests |-> <<>>, batches |-> <<>>]
    ELSE [err |-> "none", piece_length |-> PieceLength(m, i),
          num_blocks |-> NumBlocks(m, i), requests |-> Requests(m, i),
          batches |-> Batched(Requests(m, i), BATCH_SIZE)]

\* ----------------------------------------------------- function calls
\* decode_bencode(arg)
DecodeBencode ==
    /\ fn = "decode_bencode"
    /\ fpc = "called"
    /\ fret' = decode_bencode(arg)
    /\ fpc' = "decoded"
    /\ UNCHANGED <<schedVars, connVars, fn, arg>>

\* encode_bencode of the decoded value, as get_info_hash does with the info
\* dictionary of a decoded torrent file.
EncodeBencode ==
    /\ fn = "decode_bencode"
    /\ fpc = "decoded"
    /\ fret.err = "none"
    /\ fret' = [err |-> "none", value |-> fret.value, bytes |-> encode_bencode(fret.value)]
    /\ fpc' = "encoded"
    /\ UNCHANGED <<schedVars, connVars, fn, arg>>

\* PeersResponse(arg)
PeersResponseInit ==
    /\ fn = "PeersResponse"
    /\ fpc = "called"
    /\ fret' = PeersResponse(arg)
    /\ fpc' = "returned"
    /\ UNCHANGED <<schedVars, connVars, fn, arg>>

\* _Downloader(peer_id, addresses, arg.meta, arg.index)
DownloaderInit ==
    /\ fn = "_Downloader"
    /\ fpc = "called"
    /\ fret' = DownloaderSplit(arg.meta, arg.index)
    /\ fpc' = "returned"
    /\ UNCHANGED <<schedVars, connVars, fn, arg>>

\* python -m app.main <arg>: the imports at the top of main.py run first,
\* then main() calls the function of the command.
Main ==
    /\ fn = "main"
    /\ fpc = "called"
    /\ fret' = LET e == ImportFrom(MainImports, RequestsNames) IN
              IF e /= "none" THEN [err |-> e, called |-> "none"]
              ELSE [err |-> "none", called |-> Dispatch(arg)]
    /\ fpc' = "returned"
    /\ UNCHANGED <<schedVars, connVars, fn, arg>>

\* One function is about to be called with one of its inputs; no download is
\* running and no connection is open.
InitCalls ==
    /\ Downloader(CHOOSE m \in Metas : m.npieces = 1 /\ m.piece_length = BLOCK_SIZE, 0)
    /\ pc = "off"
    /\ ConnOff
    /\ \/ fn = "decode_bencode" /\ arg \in Canonical \cup Malformed
       \/ fn = "PeersResponse" /\ arg \in TrackerBodies
       \/ fn = "main" /\ arg \in Commands
       \/ fn = "_Downloader" /\ arg \in SplitArgs
    /\ fret = <<>>
    /\ fpc = "called"

NextCalls ==
    \/ DecodeBencode
    \/ EncodeBencode
    \/ PeersResponseInit
    \/ DownloaderInit
    \/ Main

SpecCalls == InitCalls /\ [][NextCalls]_vars

\* ----------------------------------------------------------- claims
AllBatches == Batched(Requests(meta, index), BATCH_SIZE)

AllDead == \A p \in Procs : status[p] = "dead"

\* The number of requests in a sequence of batches, and in the batches the
\* worker handles 0 .. n hold.
RECURSIVE QueuedRequests(_)
QueuedRequests(q) ==
    IF Len(q) = 0 THEN 0 ELSE Len(Head(q)) + QueuedRequests(Tail(q))

RECURSIVE HeldRequests(_)
HeldRequests(n) ==
    IF n < 0 THEN 0 ELSE Len(batch[n]) + HeldRequests(n - 1)

\* C1: download() ends in one of two ways.  It returns (output written) only
\* with every block of the piece received; it raises the download failure only
\* with blocks missing and with every worker dead when the loop was left; it
\* ends in no other way.
C1_TwoOutcomes ==
    /\ pc = "ok" => /\ Len(blocks) = num_blocks
                    /\ output.exists
                    /\ Len(output.data) = num_blocks
    /\ pc = "failed" => Len(blocks) < num_blocks
    /\ (pc \in {"finally", "fjoin", "after", "failed"} /\ Len(blocks) < num_blocks)
          => AllDead
    /\ pc /= "raised"

C1_Witness == pc = "failed" /\ Len(blocks) >= 1 /\ Len(errors) >= 1

\* C2: under fair scheduling of the orchestrator and of every worker, and
\* whatever workers fail, download() eventually returns or raises the download
\* failure.
C2_Terminates == <>(pc \in {"ok", "failed"})

\* The download succeeded although a worker failed and reported its error.
C2_Witness == pc = "ok" /\ Len(errors) >= 1 /\ \E p \in Procs : werr[p] /= "none"

\* C3: requeue soundness.  Every batch of the piece is pending in the queue
\* exactly once, or held by exactly one worker handle that is working, or
\* neither, and then its blocks are the received ones; a dead worker holds no
\* batch.
C3_RequeueSound ==
    LET all == AllBatches IN
    /\ \A i \in 1 .. Len(batches) :
          /\ \E k \in 1 .. Len(all) : all[k] = batches[i]
          /\ \A j \in (i + 1) .. Len(batches) : batches[j] /= batches[i]
    /\ \A p \in Procs : batch[p] /= <<>> =>
          /\ status[p] = "working"
          /\ \E k \in 1 .. Len(all) : all[k] = batch[p]
          /\ \A i \in 1 .. Len(batches) : batches[i] /= batch[p]
          /\ \A q \in Procs \ {p} : batch[q] /= batch[p]
    /\ Len(blocks) + QueuedRequests(batches) + HeldRequests(NumPeers - 1)
          = Len(Requests(meta, index))

\* A worker that held a batch has just been ended: its batch is back in the
\* queue and blocks of other batches are already received.
C3_Witness ==
    /\ pc = "join"
    /\ status[cur] = "working"
    /\ batch[cur] = <<>>
    /\ Len(batches) >= 1
    /\ Len(blocks) >= 1

\* The batches a worker process has: the one it is fetching, and those it was
\* sent and may still read.
WorkerHas(p) ==
    (IF wreq[p] /= <<>> THEN {wreq[p]} ELSE {})
    \cup (IF wstate[p] \in {"connect", "idle", "fetch"}
          THEN {toWorker[p][i].reqs :
                   i \in {j \in 1 .. Len(toWorker[p]) : toWorker[p][j].kind = "batch"}}
          ELSE {})

\* C4: at most one holder.  No batch is held by two worker handles, a held
\* batch is not in the queue, and no two worker processes have the same batch.
C4_AtMostOneHolder ==
    /\ \A p \in Procs : batch[p] /= <<>> =>
          /\ \A q \in Procs \ {p} : batch[q] /= batch[p]
          /\ \A i \in 1 .. Len(batches) : batches[i] /= batch[p]
    /\ \A p, q \in Procs : p /= q => WorkerHas(p) \cap WorkerHas(q) = {}

\* A batch sent to a worker that died without reading it is now held by
\* another worker.
C4_Witness ==
    \E p, q \in Procs :
        /\ p /= q
        /\ status[p] = "dead"
        /\ batch[q] /= <<>>
        /\ \E i \in 1 .. Len(toWorker[p]) : toWorker[p][i] = BatchMsg(batch[q])

\* C5: the piece is written only when its assembled bytes are the torrent's
\* (their SHA-1 is the expected hash).
C5_WrittenIsVerified ==
    output.exists =>
        output.data = [k \in 1 .. num_blocks |->
                          TrueBlock(Requests(meta, index)[k].begin)]

\* C6: the output file is written only with every block received; a failed
\* download leaves no output file.
C6_NoPartialOutput ==
    /\ output.exists => Len(blocks) >= num_blocks
    /\ pc \in {"failed", "raised"} => ~output.exists

C6_Witness ==
    /\ pc = "failed"
    /\ ~output.exists
    /\ Len(blocks) >= 1
    /\ Len(batches) >= 1

\* C7: shutdown.  When download() has returned or raised, every worker
\* handle is dead, its pipes are closed and its process is not running; the
\* pipes of a worker are closed only with the sentinel sent first, and a
\* worker becomes dead only with its pipes closed and its process ended.
C7_Shutdown ==
    /\ [](pc \in {"ok", "failed", "raised"} =>
            \A p \in Procs :
                status[p] = "dead" /\ mainClosed[p] /\ ~IsAlive(p))
    /\ [][\A p \in Procs :
            /\ (~mainClosed[p] /\ mainClosed'[p]) =>
                  toWorker'[p] = Append(toWorker[p], NoneMsg)
            /\ (status[p] /= "dead" /\ status'[p] = "dead") =>
                  mainClosed[p] /\ ~IsAlive(p)]_vars

C7_Witness ==
    /\ pc = "raised"
    /\ \A p \in Procs : wstate[p] = "exited"
    /\ Len(blocks) >= 1

\* C9: scoped teardown.  A worker that has left the connection scope and is
\* still running has no open socket.
C9_ScopedTeardown ==
    \A p \in Procs : wstate[p] \in {"finally", "closing"} => sock[p] /= "open"

\* The handshake of the peer has been read and accepted.
HandshakeAccepted == c_handshake /= <<>>

\* C8: a peer handshake is accepted only if its info_hash is the local
\* torrent's; with another info_hash the connection never becomes ready.
C8_InfoHashChecked ==
    /\ HandshakeAccepted => c_handshake[4] = LocalInfoHash
    /\ c_ready => script[1] /= "hs_badhash"

\* The peer sends a good handshake, a Bitfield, then keep-alives and Haves,
\* then Unchoke.
Tolerable(fs) ==
    /\ Len(fs) >= 3
    /\ fs[1] = "hs_good"
    /\ fs[2] = "bitfield"
    /\ \E k \in 3 .. Len(fs) :
          /\ fs[k] = "unchoke"
          /\ \A j \in 3 .. (k - 1) : fs[j] \in {"keepalive", "have"}

\* C10: keep-alive and Have are skipped during warm-up: with any of them
\* between Bitfield and Unchoke the construction still ends ready, and it
\* raises the unknown-message error only for an id outside the recognised set.
C10_KeepAliveHaveTolerated ==
    (/\ Tolerable(script)
     /\ \E i \in 1 .. Len(tx) : tx[i].msg = "Interested"
     /\ cpc \in {"ready", "failed", "closed"})
        => /\ cpc /= "failed"
           /\ cerr /= "RuntimeError"

\* The peer closes the connection inside the payload of its last message.
Truncated(fs) == fs[Len(fs)] = "piece_trunc"

\* C11: a short read of a header or of a payload and an unexpected message id
\* make get_blocks fail; after a failure the connection is closed and sends
\* no further request; a payload cut short is never returned as a block.
C11_ShortReadFails ==
    /\ [](cerr \notin {"none", NotReady} => ~c_ready /\ cpc \in {"failed", "closed"})
    /\ [][cerr /= "none" => tx' = tx]_vars
    /\ [](\A i \in 1 .. Len(parts) :
             parts[i].block[1] = TruncBlock[1] => parts[i].block = TruncBlock)

\* C12: bencode round trip.  Every canonical input decodes, and encoding the
\* decoded value gives the input back, byte for byte.
C12_RoundTrip ==
    (fn = "decode_bencode" /\ fpc \in {"decoded", "encoded"} /\ arg \in Canonical)
        => /\ fret.err = "none"
           /\ fpc = "encoded" => fret.bytes = arg

\* C13: decode_bencode raises on every malformed input and returns no value.
C13_MalformedRaises ==
    (fn = "decode_bencode" /\ fpc = "decoded" /\ arg \in Malformed)
        => fret.err /= "none"

\* The dotted text of the ip of a peer record.
RecordIp(rec) ==
    IF SubSeq(rec, 1, 4) = <<127, 0, 0, 1>>
    THEN <<49, 50, 55, 46, 48, 46, 48, 46, 49>>
    ELSE <<49, 48, 46, 48, 46, 48, 46, 50>>

\* C14: a tracker response whose peers string holds k whole records gives k
\* addresses in record order, each the dotted ip and the big-endian port of
\* its record, whether or not the body has the other four keys.
C14_PeersOnlyBody ==
    \A p \in PeersStrings(MaxItems) :
        (fn = "PeersResponse" /\ fpc = "returned" /\ arg \in {OnlyPeers(p), FullBody(p)})
            => /\ fret.err = "none"
               /\ Len(fret.addresses) = Len(p) \div 6
               /\ \A k \in 1 .. Len(fret.addresses) :
                     LET rec == SubSeq(p, 6 * k - 5, 6 * k) IN
                     /\ fret.addresses[k].ip = RecordIp(rec)
                     /\ fret.addresses[k].port = rec[5] * 256 + rec[6]

\* C15: the download command runs the whole-file download operation.
C15_DownloadExists ==
    (fn = "main" /\ fpc = "returned" /\ arg = "download")
        => /\ fret.err = "none"
           /\ fret.called = "download"

\* C16: the queue of batches is first in, first out.  A worker is handed the
\* head of the queue, which leaves the queue; the batch of a worker that is
\* ended goes to the tail, behind every batch pending at that moment; the
\* queue changes in no other way.
C16_FifoRequeueTail ==
    [][/\ \A p \in Procs :
            (batch'[p] /= <<>> /\ batch'[p] /= batch[p]) =>
                /\ Len(batches) > 0
                /\ batch'[p] = Head(batches)
                /\ batches' = Tail(batches)
       /\ \A p \in Procs :
            (batch[p] /= <<>> /\ batch'[p] = <<>> /\ blocks' = blocks) =>
                batches' = Append(batches, batch[p])
       /\ batches' /= batches =>
            \/ /\ Len(batches) > 0
               /\ batches' = Tail(batches)
               /\ \E p \in Procs : batch[p] = <<>> /\ batch'[p] = Head(batches)
            \/ \E p \in Procs :
                  batch[p] /= <<>> /\ batches' = Append(batches, batch[p])]_vars

\* Two workers failed while holding the two batches of a piece, the holder of
\* the second batch first: the first batch was requeued behind the second.
C16_Witness ==
    /\ Len(AllBatches) = 2
    /\ batches = <<AllBatches[2], AllBatches[1]>>

\* No worker has been ended yet, so that no batch has gone back to the queue.
NoWorkerEnded == \A p \in Procs : ~mainClosed[p]

\* The batch handed to a worker starts no lower than every batch that is not
\* pending (each of which was handed out before).
HandedAscending ==
    \A p \in Procs :
        (batch'[p] /= <<>> /\ batch'[p] /= batch[p]) =>
            \A k \in 1 .. Len(AllBatches) :
                (\A i \in 1 .. Len(batches) : batches[i] /= AllBatches[k]) =>
                    AllBatches[k][1].begin <= batch'[p][1].begin

C18_OneBlockPerOffset ==
    output.exists =>
        /\ Len(output.data) = num_blocks
        /\ \A k \in 1 .. num_blocks :
              output.data[k] \in {TrueBlock(Requests(meta, index)[k].begin),
                                  CorruptBlock(Requests(meta, index)[k].begin)}

\* The positions of the log at which a message of the name was written, and
\* at which one was read.
SentAt(name) ==
    {i \in 1 .. Len(iolog) : iolog[i].dir = "send" /\ iolog[i].name = name}

ReceivedAt(name) ==
    {i \in 1 .. Len(iolog) : iolog[i].dir = "recv" /\ iolog[i].name = name}

\* The log starts with the whole warm-up, in its order.
WarmedUp ==
    /\ Len(iolog) >= 5
    /\ [i \in 1 .. 5 |-> <<iolog[i].dir, iolog[i].name>>] =
          <<<<"send", "Handshake">>, <<"recv", "Handshake">>, <<"recv", "Bitfield">>,
            <<"send", "Interested">>, <<"recv", "Unchoke">>>>

\* C19: warm-up order.  The local handshake is written before the peer's is
\* read; Interested is written only after a Bitfield was read; the connection
\* is ready only after handshake, Bitfield, Interested and Unchoke in that
\* order; a Request is written only after them and only by a ready
\* connection: get_blocks on a handshake-only or closed connection raises and
\* writes nothing.
C19_WarmUpOrder ==
    /\ [](/\ \A j \in ReceivedAt("Handshake") : \E i \in SentAt("Handshake") : i < j
          /\ \A j \in SentAt("Interested") : \E i \in ReceivedAt("Bitfield") : i < j
          /\ c_ready => WarmedUp
          /\ \A j \in SentAt("Request") : WarmedUp /\ j > 5
          /\ cpc \in {"handshaken", "failed", "closed"} => ~c_ready)
    /\ [][tx' /= tx /\ tx'[Len(tx')].msg = "Request" => c_ready]_vars
    /\ [][cerr' = NotReady /\ cerr /= NotReady => ~c_ready /\ tx' = tx /\ rx' = rx]_vars

\* A connection fetched a block, was closed, and then rejected get_blocks.
C19_Witness ==
    /\ cpc = "closed"
    /\ cerr = NotReady
    /\ SentAt("Request") /= {}
    /\ parts /= <<>>

\* C20: get_blocks is pipelined.  The Requests of the batch are written, in
\* the order given, before any answer is read; then at most one message per
\* request is read, and get_blocks returns only when exactly that many were
\* read and each is a Piece message; the list returned has them in the order
\* they arrived.
C20_Pipelined ==
    [][tx' /= tx /\ tx'[Len(tx')].msg = "Request" =>
          LET n == Len(tx') - Len(tx)
              new == SubSeq(iolog', Len(iolog) + 1, Len(iolog'))
              reqs == [i \in 1 .. n |->
                         RequestMsg(tx'[Len(tx) + i].index, tx'[Len(tx) + i].begin,
                                    tx'[Len(tx) + i].length)] IN
          /\ reqs \in RequestBatches
          /\ Len(new) >= n
          /\ Len(new) <= 2 * n
          /\ \A i \in 1 .. n : new[i] = Sent(tx'[Len(tx) + i])
          /\ \A i \in (n + 1) .. Len(new) : new[i].dir = "recv"
          /\ IF cpc' = "ready"
             THEN /\ Len(new) = 2 * n
                  /\ Len(parts') = n
                  /\ \A i \in 1 .. n :
                        /\ new[n + i].name = "Piece"
                        /\ parts'[i] = PieceMsg(new[n + i].msg.index,
                                                new[n + i].msg.begin,
                                                new[n + i].msg.block)
             ELSE /\ parts' = parts
                  /\ cerr' /= "none"]_vars

\* get_blocks returned the two blocks of a batch of two requests, which the
\* peer sent lowest offset first.
C20_Witness ==
    /\ cpc = "ready"
    /\ Len(parts) = 2
    /\ parts[1].begin = 0
    /\ parts[2].begin = BLOCK_SIZE

\* The error a worker sent before it exited is still in its pipe: the
\* orchestrator never read it.
UnreadError(p) == \E i \in 1 .. Len(toMain[p]) : toMain[p][i].kind = "error"

\* C21: when the download failure is raised, the accumulated errors hold the
\* error of every worker that ended on an error it caught, however the exit of
\* the worker and the liveness check of the orchestrator interleave.
C21_ErrorsAccumulated ==
    pc = "failed" =>
        \A p \in Procs :
            werr[p] /= "none" =>
                /\ ~UnreadError(p)
                /\ \E i \in 1 .. Len(errors) : errors[i] = werr[p]

\* C22: the scheduler uses the whole peer list: by the time download() ends,
\* the worker of every address has been started.
C22_EveryPeerStarted ==
    pc \in {"ok", "failed"} => \A p \in Procs : wstate[p] /= "notstarted"

\* The lengths of a list of requests, added up.
RECURSIVE SumLengths(_)
SumLengths(reqs) ==
    IF Len(reqs) = 0 THEN 0 ELSE Head(reqs).length + SumLengths(Tail(reqs))

\* C23: for a valid piece index the piece length is min(piece_length,
\* length - piece_length * index), above 0 and at most piece_length; the
\* requests start at 0 and follow each other without gap or overlap, each a
\* whole block of 16 KiB except possibly the last, none empty, and their
\* lengths add up to the piece length.
C23_BlockSplitting ==
    (fn = "_Downloader" /\ fpc = "returned"
        /\ arg.index >= 0 /\ arg.index < arg.meta.npieces)
        => LET m == arg.meta
               reqs == fret.requests
               n == Len(reqs)
           IN  /\ fret.err = "none"
               /\ fret.piece_length
                     = Min(m.piece_length, m.length - m.piece_length * arg.index)
               /\ fret.piece_length > 0
               /\ fret.piece_length <= m.piece_length
               /\ n = fret.num_blocks
               /\ n >= 1
               /\ reqs[1].begin = 0
               /\ \A k \in 1 .. n :
                     /\ reqs[k].index = arg.index
                     /\ reqs[k].begin = (k - 1) * BLOCK_SIZE
                     /\ reqs[k].length > 0
                     /\ reqs[k].length <= BLOCK_SIZE
                     /\ k < n => /\ reqs[k].length = BLOCK_SIZE
                                 /\ reqs[k + 1].begin = reqs[k].begin + reqs[k].length
               /\ SumLengths(reqs) = fret.piece_length

\* A piece of several blocks whose last block is short has been split.
C23_Witness ==
    /\ fn = "_Downloader"
    /\ fpc = "returned"
    /\ fret.err = "none"
    /\ Len(fret.requests) >= 2
    /\ fret.requests[Len(fret.requests)].length < BLOCK_SIZE
    /\ arg.index = arg.meta.npieces - 1
    /\ arg.index >= 1

\* The orchestrator is inside _end_proc for Proc p, waiting in join().
InEndProc(p) == pc \in {"join", "fjoin"} /\ cur = p

\* Between the calls of the scheduler a Proc holds a batch exactly when it is
\* working.
HoldsIffWorking ==
    \A p \in Procs : InEndProc(p) \/ (batch[p] /= <<>> <=> status[p] = "working")

\* A change of the status of Proc p is one of the four transitions, each with
\* what causes it.
StatusStep(p) ==
    status'[p] /= status[p] =>
        \/ /\ status[p] = "uninit" /\ status'[p] = "ready"
           /\ wstate[p] = "notstarted" /\ wstate'[p] = "connect"
        \/ /\ status[p] = "ready" /\ status'[p] = "working"
           /\ batch[p] = <<>> /\ batch'[p] /= <<>>
           /\ toWorker'[p] = Append(toWorker[p], BatchMsg(batch'[p]))
        \/ /\ status[p] = "working" /\ status'[p] = "ready"
           /\ toMain[p] /= <<>>
           /\ Head(toMain[p]).kind = "pieces"
           /\ toMain'[p] = Tail(toMain[p])
           /\ blocks' = blocks \o Head(toMain[p]).pieces
           /\ batch'[p] = <<>>
        \/ /\ status[p] /= "dead" /\ status'[p] = "dead"

\* A dead Proc stays dead: it is not started, nothing is sent to it and
\* nothing is read from it.
DeadAbsorbing(p) ==
    status[p] = "dead" =>
        /\ status'[p] = "dead"
        /\ wstate'[p] = wstate[p]
        /\ toWorker'[p] = toWorker[p]
        /\ toMain'[p] = toMain[p]
        /\ batch'[p] = <<>>

\* C24: the status of a worker handle changes only uninit -> ready (start),
\* ready -> working (batch sent), working -> ready (result received) and
\* not dead -> dead; dead is final; and a handle holds a batch exactly when
\* its status is working.
C24_StatusMachine ==
    /\ []HoldsIffWorking
    /\ [][\A p \in Procs : StatusStep(p) /\ DeadAbsorbing(p)]_vars

\* One worker is dead, another is working on a batch, and a result has been
\* received: every transition has been taken.
C24_Witness ==
    \E p, q \in Procs :
        /\ status[p] = "dead"
        /\ wstate[p] = "exited"
        /\ status[q] = "working"
        /\ batch[q] /= <<>>
        /\ Len(blocks) >= 1

\* The worker process p has left its loop for good: its finally block has
\* run.
Leaving(p) == wstate[p] \in {"closing", "exited"}

\* The step in which worker p ends its finally block puts exactly one
\* message, an error or None, on its pipe; and a process exits only from
\* there.
FinalMessageSent(p) ==
    /\ (~Leaving(p) /\ Leaving(p)') =>
            /\ wstate[p] = "finally"
            /\ wstate'[p] = "closing"
            /\ \E final \in {NoneMsg} \cup {ErrorMsg(e) : e \in Failures} :
                  toMain'[p] = Append(toMain[p], final)
    /\ (wstate[p] /= "exited" /\ wstate'[p] = "exited") => wstate[p] = "closing"

\* C25: a worker that exits on its own puts one final message (its error or
\* None) on its pipe before it exits; so an orchestrator that found the worker
\* alive and waits in recv() has a message to read once the worker has left,
\* and no wait in recv() lasts forever.
C25_NeverWaitsOnExited ==
    /\ [][\A p \in Procs : FinalMessageSent(p)]_vars
    /\ [](pc = "recv" /\ Leaving(cur) => toMain[cur] /= <<>>)
    /\ []<>(pc /= "recv")

\* The orchestrator waits in recv() for a worker that has since exited, and
\* the final message of the worker is in the pipe.
C25_Witness ==
    /\ pc = "recv"
    /\ wstate[cur] = "exited"
    /\ toMain[cur] /= <<>>
    /\ toMain[cur][Len(toMain[cur])].kind \in {"none", "error"}
====
